---- MODULE Spec2Model ----
(***************************************************************************)
(* Model of clar's test-suite generator (_clar.py): the directory walk of  *)
(* ClarTestBuilder.__init__, the per-file scan (_process_test_file), the   *)
(* renderer (_render_main, _render_header) and the driver main().          *)
(*                                                                         *)
(* Text is modelled as a sequence of symbols.  A symbol is one character   *)
(* ("a", "_") or a whole word that the program never looks inside          *)
(* ("one", "(void)").  Alphabet lists the symbols in the byte order of the *)
(* strings they stand for, so that comparing two symbol sequences          *)
(* position by position is Python's comparison of the two strings.         *)
(***************************************************************************)
EXTENDS Naturals, Sequences, FiniteSets

\* ---------------------------------------------------------------- bounds
MaxDefs == 3
MaxRoots == 2
MaxRuns == 2
MaxMainDefs == 2

\* ------------------------------------------------------------- text order
Alphabet ==
    << "(void)", "_", "a", "b", "categorize", "clar_main", "cleanup", "d",
       "init", "initialize", "one", "shutdown", "start", "suite", "test",
       "two", "void clar_on_", "void test_" >>

Rank(sym) == CHOOSE i \in 1..Len(Alphabet) : Alphabet[i] = sym

\* s < t for two strings (Python's str comparison)
RECURSIVE StrLess(_, _)
StrLess(s, t) ==
    IF t = << >> THEN FALSE
    ELSE IF s = << >> THEN TRUE
    ELSE IF Head(s) = Head(t) THEN StrLess(Tail(s), Tail(t))
    ELSE Rank(Head(s)) < Rank(Head(t))

\* sorted(strings): stable insertion into ascending order
RECURSIVE InsertStr(_, _)
InsertStr(x, sorted) ==
    IF sorted = << >> THEN << x >>
    ELSE IF StrLess(x, Head(sorted))
         THEN << x >> \o sorted
         ELSE << Head(sorted) >> \o InsertStr(x, Tail(sorted))

RECURSIVE SortedStrings(_)
SortedStrings(seq) ==
    IF seq = << >> THEN << >>
    ELSE InsertStr(seq[Len(seq)], SortedStrings(SubSeq(seq, 1, Len(seq) - 1)))

\* sep.join(parts)
RECURSIVE Join(_, _)
Join(sep, parts) ==
    IF parts = << >> THEN << >>
    ELSE IF Len(parts) = 1 THEN parts[1]
    ELSE parts[1] \o sep \o Join(sep, Tail(parts))

\* s.replace(old, new) for a one-symbol old
Replace(s, old, new) == [i \in 1..Len(s) |-> IF s[i] = old THEN new ELSE s[i]]

Range(f) == {f[i] : i \in DOMAIN f}

\* ------------------------------------------------------ source text of a file
\* The text of a C file is the sequence of its function definitions that sit
\* at the start of a line: `void test_<suite>__<short>(void) {` (kind "test")
\* or `void clar_on_<short>(void) {` (kind "event"); comment says that the
\* definition is inside a /* */ or // comment.
None == [short_name |-> "", declaration |-> << >>, symbol |-> << >>]

CLAR_EVENTS == << "init", "shutdown", "test", "suite" >>

Reserved == {"categorize", "initialize", "cleanup"}

TestDecl(suite, short) == << "void test_" >> \o suite \o << "_", "_", short, "(void)" >>
TestSymbol(suite, short) == << "test_" >> \o suite \o << "_", "_", short >>
EventDecl(event) == << "void clar_on_", event, "(void)" >>

IsComment(d) == d.comment
_skip_comments(text) == SelectSeq(text, LAMBDA d : ~IsComment(d))

\* EVENT_CB_REGEX.findall(contents): (decl, event) pairs
EventFindall(contents) ==
    LET evs == SelectSeq(contents, LAMBDA d : d.kind = "event")
    IN  [i \in 1..Len(evs) |-> << EventDecl(evs[i].short), evs[i].short >>]

\* re.compile(TEST_FUNC_REGEX % suite_name).findall(contents):
\* (declaration, symbol, short_name) triples
TestFindall(suite_name, contents) ==
    LET ts == SelectSeq(contents,
                        LAMBDA d : d.kind = "test" /\ d.suite = suite_name)
    IN  [i \in 1..Len(ts) |->
            << TestDecl(suite_name, ts[i].short),
               TestSymbol(suite_name, ts[i].short),
               ts[i].short >>]

\* ------------------------------------------------------- ClarTestBuilder
\* A dict is a function whose domain is the set of its keys.
EmptyDict == [k \in {} |-> None]
DictSet(d, k, v) == [x \in (DOMAIN d) \cup {k} |-> IF x = k THEN v ELSE d[x]]

NewBuilder(path) ==
    [ path            |-> path,
      declarations    |-> << >>,
      suite_names     |-> << >>,
      callback_data   |-> EmptyDict,
      suite_data      |-> EmptyDict,
      event_callbacks |-> << >> ]

\* _process_events without `if event not in CLAR_EVENTS: continue`
ProcessEventUnfiltered(self, match) ==
    [self EXCEPT !.declarations = Append(@, match[1]),
                 !.event_callbacks = Append(@, match[2])]

\* _process_events: the loop body, then the loop over findall's matches
ProcessEvent(self, match) ==
    IF match[2] \notin Range(CLAR_EVENTS) THEN self
    ELSE [self EXCEPT !.declarations = Append(@, match[1]),
                      !.event_callbacks = Append(@, match[2])]

RECURSIVE ProcessEventsLoop(_, _)
ProcessEventsLoop(self, matches) ==
    IF matches = << >> THEN self
    ELSE ProcessEventsLoop(ProcessEvent(self, Head(matches)), Tail(matches))

_process_events(self, contents) ==
    ProcessEventsLoop(self, EventFindall(contents))

\* _process_declarations, lines 258-272: one iteration of the for loop.
\* `if categorize` is followed by a separate `if initialize / elif cleanup /
\* else`, so a match named categorize also takes the else branch.
Classify(acc, match) ==
    LET data == [short_name |-> match[3], declaration |-> match[1],
                 symbol |-> match[2]]
        a1 == IF data.short_name = "categorize"
              THEN [acc EXCEPT !.categorize = data] ELSE acc
    IN  IF data.short_name = "initialize" THEN [a1 EXCEPT !.initialize = data]
        ELSE IF data.short_name = "cleanup" THEN [a1 EXCEPT !.cleanup = data]
        ELSE [a1 EXCEPT !.callbacks = Append(@, data)]

RECURSIVE ClassifyLoop(_, _)
ClassifyLoop(acc, matches) ==
    IF matches = << >> THEN acc
    ELSE ClassifyLoop(Classify(acc, Head(matches)), Tail(matches))

ClassifyAll(suite_name, contents) ==
    ClassifyLoop([callbacks |-> << >>, categorize |-> None,
                  initialize |-> None, cleanup |-> None],
                 TestFindall(suite_name, contents))

\* _process_declarations without callbacks.sort
UnsortedCallbacks(callbacks) == callbacks

\* callbacks.sort(key=lambda x: x['short_name']): stable
RECURSIVE InsertCallback(_, _)
InsertCallback(cb, sorted) ==
    IF sorted = << >> THEN << cb >>
    ELSE IF StrLess(<< cb.short_name >>, << Head(sorted).short_name >>)
         THEN << cb >> \o sorted
         ELSE << Head(sorted) >> \o InsertCallback(cb, Tail(sorted))

RECURSIVE SortCallbacks(_)
SortCallbacks(callbacks) ==
    IF callbacks = << >> THEN << >>
    ELSE InsertCallback(callbacks[Len(callbacks)],
                        SortCallbacks(SubSeq(callbacks, 1, Len(callbacks) - 1)))

OptDecl(cb) == IF cb = None THEN << >> ELSE << cb.declaration >>

_process_declarations(self, suite_name, contents) ==
    LET acc == ClassifyAll(suite_name, contents)
        callbacks == acc.callbacks
        suite == [ name       |-> suite_name,
                   categorize |-> acc.categorize,
                   initialize |-> acc.initialize,
                   cleanup    |-> acc.cleanup,
                   cb_count   |-> Len(callbacks) ]
    IN  IF callbacks = << >> THEN self
        ELSE [self EXCEPT
                !.declarations = @ \o OptDecl(acc.categorize)
                                   \o OptDecl(acc.initialize)
                                   \o OptDecl(acc.cleanup)
                                   \o [i \in 1..Len(callbacks) |->
                                          callbacks[i].declaration],
                !.callback_data = DictSet(@, suite_name, SortCallbacks(callbacks)),
                !.suite_data = DictSet(@, suite_name, suite),
                !.suite_names = Append(@, suite_name)]

_process_test_file(self, suite_name, text) ==
    LET contents == _skip_comments(text)
    IN  _process_declarations(_process_events(self, contents), suite_name, contents)

\* ------------------------------------------------------------- renderer
NullPair == << "NULL", "NULL" >>

_render_cb(cb) == << cb.short_name, cb.symbol >>

_render_suite(suite, index) ==
    [ suite_index |-> index,
      clean_name  |-> Replace(suite.name, "_", "::"),
      categorize  |-> IF suite.categorize # None
                      THEN _render_cb(suite.categorize) ELSE NullPair,
      initialize  |-> IF suite.initialize # None
                      THEN _render_cb(suite.initialize) ELSE NullPair,
      cleanup     |-> IF suite.cleanup # None
                      THEN _render_cb(suite.cleanup) ELSE NullPair,
      cb_ptr      |-> << "_clar_cb_" >> \o suite.name,
      cb_count    |-> suite.cb_count ]

_render_callbacks(suite_name, callbacks) ==
    LET kept == SelectSeq(callbacks, LAMBDA cb : cb.short_name \notin Reserved)
    IN  [ array     |-> << "_clar_cb_" >> \o suite_name,
          callbacks |-> [i \in 1..Len(kept) |-> _render_cb(kept[i])] ]

_render_event_overrides(self) ==
    LET missing == SelectSeq(CLAR_EVENTS,
                             LAMBDA event : event \notin Range(self.event_callbacks))
    IN  [i \in 1..Len(missing) |->
            << "#define clar_on_", missing[i], "() /* nop */" >>]

_render_header(self) ==
    LET decls == SortedStrings(self.declarations)
    IN  [ extern_declarations |->
            [i \in 1..Len(decls) |-> << "extern " >> \o decls[i] \o << ";" >>] ]

RECURSIVE SumLen(_, _)
SumLen(d, keys) ==
    IF keys = {} THEN 0
    ELSE LET k == CHOOSE x \in keys : TRUE
         IN  Len(d[k]) + SumLen(d, keys \ {k})

\* _render_main iterating self.suite_names as discovered
DiscoveryOrder(self) == self.suite_names

SuiteOrder(self) == SortedStrings(self.suite_names)

_render_main(self) ==
    LET suite_names == SuiteOrder(self)
        suite_data == [i \in 1..Len(suite_names) |->
                          _render_suite(self.suite_data[suite_names[i]], i - 1)]
        callbacks == [i \in 1..Len(suite_names) |->
                         _render_callbacks(suite_names[i],
                                           self.callback_data[suite_names[i]])]
    IN  [ clar_callbacks       |-> callbacks,
          clar_suites          |-> suite_data,
          clar_suite_count     |-> Len(suite_data),
          clar_callback_count  |-> SumLen(self.callback_data,
                                          DOMAIN self.callback_data),
          clar_event_overrides |-> _render_event_overrides(self) ]

\* ------------------------------------------------------ files and the walk
\* A file of a scanned tree: dir is the list of directory names below the
\* root, name the file name (its last symbol is the extension), text its
\* contents.
IsC(name) == name # << >> /\ name[Len(name)] = ".c"          \* fnmatch "*.c"
StripExt(name) == SubSeq(name, 1, Len(name) - 1)              \* test_file[:-2]

\* test_name = "_".join(module_root + [test_file[:-2]])
TestName(dir, name) == Join(<< "_" >>, dir \o << StripExt(name) >>)

\* clar.c, clar.h and the modules carry no definition the two regexes match
ClarTemplateDefs == << >>

NoFile == [exists |-> FALSE, text |-> << >>]
NoOutput == [main |-> NoFile, header |-> NoFile]

\* the text of a generated clar_main.c, as _process_test_file reads it back
MainDefs(file) == IF file.text = << >> THEN << >> ELSE ClarTemplateDefs

\* what os.walk lists in directory dir of a root: the files ...
Listing(files, out, dir) ==
    {[name |-> f.name, text |-> f.text] : f \in {g \in files : g.dir = dir}}
    \cup (IF dir = << >> /\ out.main.exists
          THEN {[name |-> << "clar_main", ".c" >>, text |-> MainDefs(out.main)]}
          ELSE {})
    \cup (IF dir = << >> /\ out.header.exists
          THEN {[name |-> << "clar", ".h" >>, text |-> << >>]}
          ELSE {})

\* ... and the subdirectories
Subdirs(files, dir) ==
    {SubSeq(f.dir, 1, Len(dir) + 1) :
        f \in {g \in files : Len(g.dir) > Len(dir)
                             /\ SubSeq(g.dir, 1, Len(dir)) = dir}}

\* ------------------------------------------------------------ render()
TemplateFiles == {"clar.c", "clar.h", "modules"}

\* _load_file raises when the file is not there to be read
MainLoads(avail) == {"clar.c", "modules"} \subseteq avail
HeaderLoads(avail) == "clar.h" \in avail

\* render(): each open(..., "w") truncates or creates its file before the
\* text to write is computed.
render(self, out, avail) ==
    IF ~MainLoads(avail)
    THEN [out |-> [out EXCEPT !.main = [exists |-> TRUE, text |-> << >>]],
          raised |-> TRUE]
    ELSE LET o1 == [out EXCEPT !.main = [exists |-> TRUE,
                                         text |-> << _render_main(self) >>]]
         IN  IF ~HeaderLoads(avail)
             THEN [out |-> [o1 EXCEPT !.header = [exists |-> TRUE, text |-> << >>]],
                   raised |-> TRUE]
             ELSE [out |-> [o1 EXCEPT !.header =
                              [exists |-> TRUE, text |-> << _render_header(self) >>]],
                   raised |-> FALSE]

\* --------------------------------------------------------------- inputs
Roots == {"r1", "r2"}

Path(dir, name) == [dir |-> dir, name |-> name]

\* b.c, a_b.c and a/b.c: the last two derive the same name, a_b
Pool ==
    << Path(<< >>, << "b", ".c" >>),
       Path(<< >>, << "a", "_", "b", ".c" >>),
       Path(<< << "a" >> >>, << "b", ".c" >>) >>

\* b.c, a/b_d.c and a_b/d.c: the last two derive the same name, a_b_d, and
\* os.walk may visit their directories in either order
MainPool ==
    << Path(<< >>, << "b", ".c" >>),
       Path(<< << "a" >> >>, << "b", "_", "d", ".c" >>),
       Path(<< << "a", "_", "b" >> >>, << "d", ".c" >>) >>

Def(kind, suite, short, comment) ==
    [kind |-> kind, suite |-> suite, short |-> short, comment |-> comment]

Shorts == {"categorize", "initialize", "cleanup", "one", "two"}

\* the definitions a file at path p may hold: tests of its own suite, a test
\* of another suite, event callbacks (start is no event of clar), and a
\* commented-out one
DefsAt == [p \in Range(Pool) |->
    {Def("test", TestName(p.dir, p.name), s, FALSE) : s \in Shorts}
    \cup {Def("test", << "d" >>, "one", FALSE)}
    \cup {Def("event", << >>, e, FALSE) : e \in {"init", "test", "start"}}
    \cup {Def("event", << >>, "init", TRUE)}]

MainDefsAt == [p \in Range(MainPool) |->
    {Def("test", TestName(p.dir, p.name), s, FALSE) : s \in {"initialize", "one", "two"}}]

\* the tree that holds, for every i with a non-empty texts[i], a file at
\* pool[i] with that text
TreeOf(pool, texts) ==
    {[dir |-> pool[i].dir, name |-> pool[i].name, text |-> texts[i]] :
        i \in {j \in 1..Len(pool) : texts[j] # << >>}}

\* ---------------------------------------------------------------- state
VARIABLES
    tree,      \* tree[r]: the source files under root r (never written)
    nargs,     \* len(args or ['.']): the folders of one invocation
    runs,      \* how many more times the tool is going to be run
    disk,      \* disk[r]: clar_main.c and clar.h in root r
    pc,        \* where main() is: idle, loop, walk, built, failed
    nroots,    \* folders of this invocation taken so far
    builder,   \* the ClarTestBuilder of the current folder
    frames,    \* os.walk: stack of sets of directories still to visit
    files,     \* the *.c files of the current directory still to read
    curdir,    \* the directory os.walk is in
    wrote,     \* roots in which this invocation opened an output file
    prev,      \* disk when this invocation started
    before,    \* disk[r] when the last render() in r started
    error      \* the exception that ended the invocation, "" if none

vars == << tree, nargs, runs, disk, pc, nroots, builder, frames, files, curdir,
           wrote, prev, before, error >>

Start ==
    /\ disk = [r \in Roots |-> NoOutput]
    /\ pc = "idle"
    /\ nroots = 0
    /\ builder = NewBuilder("r1")
    /\ frames = << >>
    /\ files = {}
    /\ curdir = << >>
    /\ wrote = {}
    /\ prev = disk
    /\ before = NoOutput
    /\ error = ""

\* one run of the tool over one folder
Init ==
    /\ \E n1 \in 0..MaxDefs : \E x1 \in [1..n1 -> DefsAt[Pool[1]]] :
       \E n2 \in 0..(MaxDefs - n1) : \E x2 \in [1..n2 -> DefsAt[Pool[2]]] :
       \E n3 \in 0..(MaxDefs - n1 - n2) : \E x3 \in [1..n3 -> DefsAt[Pool[3]]] :
          tree = [r \in Roots |-> IF r = "r1"
                                  THEN TreeOf(Pool, << x1, x2, x3 >>) ELSE {}]
    /\ nargs = 1
    /\ runs = 1
    /\ Start

\* the source trees of a run over several folders: r1 over MainPool, r2 with
\* at most one file of one definition
MainTrees ==
    \E n1 \in 0..MaxMainDefs : \E x1 \in [1..n1 -> MainDefsAt[MainPool[1]]] :
    \E n2 \in 0..(MaxMainDefs - n1) : \E x2 \in [1..n2 -> MainDefsAt[MainPool[2]]] :
    \E n3 \in 0..(MaxMainDefs - n1 - n2) : \E x3 \in [1..n3 -> MainDefsAt[MainPool[3]]] :
    \E m \in 0..1 : \E y \in [1..m -> MainDefsAt[MainPool[1]]] :
       tree = [r \in Roots |-> IF r = "r1"
                               THEN TreeOf(MainPool, << x1, x2, x3 >>)
                               ELSE TreeOf(MainPool, << y, << >>, << >> >>)]

\* the tool run MaxRuns times over up to MaxRoots folders
InitMain ==
    /\ MainTrees
    /\ nargs \in 1..MaxRoots
    /\ runs = MaxRuns
    /\ Start

\* one run of the tool over up to MaxRoots folders
InitArgs ==
    /\ MainTrees
    /\ nargs \in 1..MaxRoots
    /\ runs = 1
    /\ Start

\* main() is started
Main ==
    /\ pc \in {"idle", "failed"}
    /\ runs > 0
    /\ runs' = runs - 1
    /\ nroots' = 0
    /\ wrote' = {}
    /\ prev' = disk
    /\ error' = ""
    /\ pc' = "loop"
    /\ UNCHANGED << tree, nargs, disk, builder, frames, files, curdir, before >>

\* for folder in args: ClarTestBuilder(folder, ...) up to the os.walk loop
Construct(folder) ==
    /\ pc = "loop"
    /\ nroots < nargs
    /\ nroots' = nroots + 1
    /\ builder' = NewBuilder(folder)
    /\ frames' = << {<< >>} >>
    /\ files' = {}
    /\ curdir' = << >>
    /\ pc' = "walk"
    /\ UNCHANGED << tree, nargs, runs, disk, wrote, prev, before, error >>

\* os.walk yields the next directory, top-down, siblings in any order
WalkDir ==
    /\ pc = "walk"
    /\ files = {}
    /\ frames # << >>
    /\ \E d \in frames[Len(frames)] :
          LET rest == frames[Len(frames)] \ {d}
              below == IF rest = {} THEN SubSeq(frames, 1, Len(frames) - 1)
                       ELSE [frames EXCEPT ![Len(frames)] = rest]
              sub == Subdirs(tree[builder.path], d)
          IN  /\ frames' = IF sub = {} THEN below ELSE Append(below, sub)
              /\ curdir' = d
              /\ files' = {f \in Listing(tree[builder.path], disk[builder.path], d) :
                              IsC(f.name)}
    /\ UNCHANGED << tree, nargs, runs, disk, pc, nroots, builder, wrote, prev, before, error >>

\* one test_file of tests_in_module, in the directory listing's order
ProcessFile ==
    /\ pc = "walk"
    /\ \E f \in files :
          /\ builder' = _process_test_file(builder, TestName(curdir, f.name), f.text)
          /\ files' = files \ {f}
    /\ UNCHANGED << tree, nargs, runs, disk, pc, nroots, frames, curdir, wrote, prev,
                    before, error >>

\* __init__ without the check of suite_data
EndInitNoCheck ==
    /\ pc = "walk"
    /\ files = {}
    /\ frames = << >>
    /\ pc' = "built"
    /\ UNCHANGED << tree, nargs, runs, disk, nroots, builder, frames, files,
                    curdir, wrote, prev, before, error >>

\* the end of __init__: `if not self.suite_data: raise RuntimeError`
EndInit ==
    /\ pc = "walk"
    /\ files = {}
    /\ frames = << >>
    /\ IF DOMAIN builder.suite_data = {}
       THEN pc' = "failed" /\ error' = "No tests found"
       ELSE pc' = "built" /\ error' = error
    /\ UNCHANGED << tree, nargs, runs, disk, nroots, builder, frames, files, curdir,
                    wrote, prev, before >>

\* builder.render()
Render ==
    /\ pc = "built"
    /\ \E avail \in SUBSET TemplateFiles :
          LET r == render(builder, disk[builder.path], avail)
          IN  /\ disk' = [disk EXCEPT ![builder.path] = r.out]
              /\ pc' = IF r.raised THEN "failed" ELSE "loop"
              /\ error' = IF r.raised THEN "load failed" ELSE error
    /\ before' = disk[builder.path]
    /\ wrote' = wrote \cup {builder.path}
    /\ UNCHANGED << tree, nargs, runs, nroots, builder, frames, files, curdir, prev >>

\* main() returns after the last folder
Return ==
    /\ pc = "loop"
    /\ nroots = nargs
    /\ pc' = "idle"
    /\ UNCHANGED << tree, nargs, runs, disk, nroots, builder, frames, files, curdir,
                    wrote, prev, before, error >>

Next ==
    \/ Main
    \/ \E folder \in Roots : Construct(folder)
    \/ WalkDir
    \/ ProcessFile
    \/ EndInit
    \/ Render
    \/ Return

Spec == Init /\ [][Next]_vars

SpecMain == InitMain /\ [][Next]_vars

SpecArgs == InitArgs /\ [][Next]_vars

\* =============================================================== properties
Full(text) == [exists |-> TRUE, text |-> << text >>]

\* render() of the current builder has run (it returned or it raised)
RenderRan ==
    /\ nroots >= 1
    /\ \/ pc \in {"loop", "idle"}
       \/ pc = "failed" /\ error = "load failed"

\* ... and clar_main.c holds the text it wrote
Rendered == RenderRan /\ disk[builder.path].main.text # << >>

MainOut == disk[builder.path].main.text[1]

SuiteOf(desc) == Tail(desc.cb_ptr)

\* the *.c files __init__ scanned under the current root
Scanned == tree[builder.path]

Uncommented(f) == SelectSeq(f.text, LAMBDA d : ~d.comment)

\* the short names of the test functions of file f that its own regex matches
MatchedShorts(f) ==
    LET ts == SelectSeq(Uncommented(f),
                        LAMBDA d : d.kind = "test"
                                   /\ d.suite = TestName(f.dir, f.name))
    IN  [i \in 1..Len(ts) |-> ts[i].short]

\* C1: after any render(), also one that raised while producing the main or
\* the header text, clar_main.c and clar.h either both hold their complete
\* new content or are both as they were before the call.
C1_AllOrNothing ==
    RenderRan =>
        \/ disk[builder.path] = [main   |-> Full(_render_main(builder)),
                                 header |-> Full(_render_header(builder))]
        \/ disk[builder.path] = before

\* C2 as stated: when main() fails with "No tests found", this invocation
\* has written no output file for any root.
C2_NothingWrittenAnywhere ==
    (pc = "failed" /\ error = "No tests found") => wrote = {}

\* C2 amended: a root whose scan yields zero suites never reaches render()
\* (the invocation fails with "No tests found"), and when that error is
\* raised this invocation has written no output file into that root.
C2_NothingWrittenInThatRoot ==
    /\ pc = "built" => DOMAIN builder.suite_data # {}
    /\ RenderRan => DOMAIN builder.suite_data # {}
    /\ (pc = "failed" /\ error = "No tests found") =>
          /\ DOMAIN builder.suite_data = {}
          /\ builder.path \notin wrote

\* witness of C2: the error is raised for one root after another root of the
\* same invocation was rendered
C2_Witness ==
    /\ pc = "failed" /\ error = "No tests found"
    /\ wrote # {}
    /\ builder.path \notin wrote

\* C3: a file about to be scanned whose matched test functions include no
\* ordinary test (only categorize, initialize, cleanup, or none at all) makes
\* _process_declarations create no suite and add no declaration.
C3_NoOrdinaryNoSuite ==
    pc = "walk" =>
        \A f \in files :
            LET suite_name == TestName(curdir, f.name)
                contents == _skip_comments(f.text)
                found == TestFindall(suite_name, contents)
                self == _process_events(builder, contents)
            IN  (\A i \in 1..Len(found) : found[i][3] \in Reserved)
                => _process_declarations(self, suite_name, contents) = self

\* C4: in the rendered clar_main.c every suite descriptor's cb_count is the
\* number of entries of the suite's _clar_cb_ array, and both are the number
\* of the suite's callbacks named none of categorize, initialize, cleanup.
C4_CountIsArrayLength ==
    Rendered =>
        \A i \in 1..Len(MainOut.clar_suites) :
            LET desc == MainOut.clar_suites[i]
                array == MainOut.clar_callbacks[i]
                ordinary == SelectSeq(builder.callback_data[SuiteOf(desc)],
                                      LAMBDA cb : cb.short_name \notin Reserved)
            IN  /\ desc.cb_count = Len(array.callbacks)
                /\ desc.cb_count = Len(ordinary)

\* C5: a run that writes both files into a root that already holds the
\* complete output of the run before it writes the same bytes again,
\* whatever the order of the two directory walks.
C5_SameBytesTwice ==
    LET out == disk[builder.path]
        old == prev[builder.path]
    IN  ( /\ nroots >= 1 /\ pc \in {"loop", "idle"}
          /\ old.main.text # << >> /\ old.header.text # << >> )
        => out = old

\* the events with an uncommented clar_on_<event> definition in a scanned file
DefinedEvents ==
    {d.short : d \in {x \in UNION {Range(Uncommented(f)) : f \in Scanned} :
                         x.kind = "event"}}

\* C6: the event overrides of clar_main.c are the `#define clar_on_<event>()
\* /* nop */` lines of exactly the events of CLAR_EVENTS, in its order, with
\* no uncommented clar_on_<event> definition in any scanned file; and a
\* clar_on_<name> with a name outside CLAR_EVENTS is neither declared nor
\* registered.
C6_Overrides ==
    /\ Rendered =>
          LET missing == SelectSeq(CLAR_EVENTS, LAMBDA e : e \notin DefinedEvents)
          IN  MainOut.clar_event_overrides =
                 [i \in 1..Len(missing) |->
                     << "#define clar_on_", missing[i], "() /* nop */" >>]
    /\ Range(builder.event_callbacks) \subseteq Range(CLAR_EVENTS)
    /\ \A i \in 1..Len(builder.declarations) :
          builder.declarations[i][1] = "void clar_on_"
          => builder.declarations[i][2] \in Range(CLAR_EVENTS)

\* witness of C6: rendered from a tree in which a file that yields no suite
\* defines clar_on_init and clar_on_start
C6_Witness ==
    /\ Rendered
    /\ \E f \in Scanned :
          /\ TestName(f.dir, f.name) \notin DOMAIN builder.suite_data
          /\ \E i, j \in 1..Len(f.text) :
                /\ f.text[i] = Def("event", << >>, "init", FALSE)
                /\ f.text[j] = Def("event", << >>, "start", FALSE)
    /\ Len(MainOut.clar_event_overrides) = 3

\* C7: the suite descriptors of clar_main.c are in lexicographic order of
\* suite name with indices 0..N-1, and the _clar_cb_ arrays follow the same
\* order.
C7_SuitesSorted ==
    Rendered =>
        LET suites == MainOut.clar_suites
            arrays == MainOut.clar_callbacks
        IN  /\ Len(arrays) = Len(suites)
            /\ \A i \in 1..Len(suites) :
                  /\ suites[i].suite_index = i - 1
                  /\ arrays[i].array = suites[i].cb_ptr
            /\ \A i, j \in 1..Len(suites) :
                  i < j => ~StrLess(SuiteOf(suites[j]), SuiteOf(suites[i]))

\* witness of C7: two different suites were discovered in the order opposite
\* to their names' order
C7_Witness ==
    /\ Rendered
    /\ Len(builder.suite_names) >= 2
    /\ StrLess(builder.suite_names[2], builder.suite_names[1])

\* C8: the entries of every rendered _clar_cb_ array are in non-decreasing
\* order of short name.
C8_CallbacksSorted ==
    Rendered =>
        \A k \in 1..Len(MainOut.clar_callbacks) :
            LET cbs == MainOut.clar_callbacks[k].callbacks
            IN  \A i, j \in 1..Len(cbs) :
                    i < j => ~StrLess(<< cbs[j][1] >>, << cbs[i][1] >>)

\* witness of C8: a rendered suite whose file defines test two before test one
C8_Witness ==
    /\ Rendered
    /\ \E f \in Scanned :
          /\ \E i, j \in 1..Len(MatchedShorts(f)) :
                i < j /\ MatchedShorts(f)[i] = "two" /\ MatchedShorts(f)[j] = "one"
          /\ \E k \in 1..Len(MainOut.clar_callbacks) :
                /\ MainOut.clar_callbacks[k].array =
                      << "_clar_cb_" >> \o TestName(f.dir, f.name)
                /\ Len(MainOut.clar_callbacks[k].callbacks) >= 2

\* C9: a matched function named categorize, initialize or cleanup is held
\* in the role of that name and is never in the suite's ordinary-callback
\* list, so cb_count does not count it.
C9_ReservedNeverOrdinary ==
    \A n \in DOMAIN builder.callback_data :
        LET cbs == builder.callback_data[n]
            suite == builder.suite_data[n]
        IN  /\ \A i \in 1..Len(cbs) : cbs[i].short_name \notin Reserved
            /\ suite.categorize.short_name \in {"", "categorize"}
            /\ suite.initialize.short_name \in {"", "initialize"}
            /\ suite.cleanup.short_name \in {"", "cleanup"}

\* C10: no suite name occurs twice in clar_main.c, among the descriptors or
\* among the _clar_cb_ arrays, and the suite count written is the number of
\* suites held in suite_data.
C10_NamesUnique ==
    Rendered =>
        LET suites == MainOut.clar_suites
            arrays == MainOut.clar_callbacks
        IN  /\ \A i, j \in 1..Len(suites) :
                  i # j => SuiteOf(suites[i]) # SuiteOf(suites[j])
            /\ \A i, j \in 1..Len(arrays) :
                  i # j => arrays[i].array # arrays[j].array
            /\ MainOut.clar_suite_count = Cardinality(DOMAIN builder.suite_data)

====
